---- MODULE Spec2Model ----
(***************************************************************************)
(* Model of f3d's window_impl (render-surface selection, per-frame option   *)
(* synchronisation, render / renderToImage, coordinate unprojection) and of *)
(* F3DOptions (command line and configuration file loading).                *)
(***************************************************************************)
EXTENDS Integers, Sequences, FiniteSets, TLC

VARIABLES
  build,      \* compile-time feature flags of the build under analysis
  status,     \* life cycle of the window_impl object
  RenWin,     \* Internals->RenWin: the render surface, of class Null when unset
  Camera,     \* Internals->Camera: the renderer it is bound to, or Null
  selected,   \* history: class of the surface created by the constructor
  requested,  \* history: the type argument given to the constructor
  reported,   \* last value returned by getType()
  renderer,   \* Internals->Renderer: last value given to each setter
  opts,       \* the options snapshot referenced by Internals->Options
  CachePath,  \* Internals->CachePath
  dirs,       \* directories existing on the file system
  pc,         \* position inside render() / renderToImage()
  call,       \* bookkeeping of the public call that ran last or is running
  f3dopt,     \* the F3DOptions object (command line application)
  fileRun,    \* last InitializeFromFile call: file, return value
  coord       \* last getWorldFromDisplay call: unprojected point, result

vars == <<build, status, RenWin, Camera, selected, requested, reported,
          renderer, opts, CachePath, dirs, pc, call, f3dopt, fileRun, coord>>

winVars == <<status, RenWin, Camera, selected, requested>>

Null == "null"

-----------------------------------------------------------------------------
(* Build configuration                                                      *)

Platforms == {"x11", "headless", "win32", "apple"}

\* Every combination of the feature macros the constructor and getType test.
\* VTK_NEW stands for VTK_VERSION_NUMBER >= VTK_VERSION_CHECK(9, 3, 20240914).
Builds ==
  [platform : Platforms, EXTERNAL_RENDERING : BOOLEAN, HAS_EGL : BOOLEAN,
   VTK_NEW : BOOLEAN, NDEBUG : BOOLEAN]

VTK_USE_X(b) == b.platform = "x11"

WIN32(b) == b.platform = "win32"

APPLE(b) == b.platform = "apple"

\* window::Type, plus the empty std::optional
Types == {"NONE", "EXTERNAL", "GLX", "WGL", "COCOA", "EGL", "OSMESA", "WASM", "UNKNOWN"}

Unspecified == "nullopt"

TypeArgs == Types \cup {Unspecified}

\* ancestors of each concrete render window class (vtkObject::IsA)
Ancestors ==
  [vtkF3DNoRenderWindow |-> {"vtkF3DNoRenderWindow", "vtkRenderWindow"},
   vtkExternalOpenGLRenderWindow |->
     {"vtkExternalOpenGLRenderWindow", "vtkGenericOpenGLRenderWindow",
      "vtkOpenGLRenderWindow", "vtkRenderWindow"},
   vtkEGLRenderWindow |-> {"vtkEGLRenderWindow", "vtkOpenGLRenderWindow", "vtkRenderWindow"},
   vtkOSOpenGLRenderWindow |->
     {"vtkOSOpenGLRenderWindow", "vtkOpenGLRenderWindow", "vtkRenderWindow"},
   vtkXOpenGLRenderWindow |->
     {"vtkXOpenGLRenderWindow", "vtkOpenGLRenderWindow", "vtkRenderWindow"},
   vtkWin32OpenGLRenderWindow |->
     {"vtkWin32OpenGLRenderWindow", "vtkOpenGLRenderWindow", "vtkRenderWindow"},
   vtkCocoaRenderWindow |->
     {"vtkCocoaRenderWindow", "vtkOpenGLRenderWindow", "vtkRenderWindow"}]

Classes == DOMAIN Ancestors

IsA(class, name) == name \in Ancestors[class]

\* vtkRenderWindow::New(): the object factory picks a class the build has
DefaultClasses(b) ==
  (IF VTK_USE_X(b) THEN {"vtkXOpenGLRenderWindow"} ELSE {})
  \cup (IF WIN32(b) THEN {"vtkWin32OpenGLRenderWindow"} ELSE {})
  \cup (IF APPLE(b) THEN {"vtkCocoaRenderWindow"} ELSE {})
  \cup (IF b.HAS_EGL THEN {"vtkEGLRenderWindow"} ELSE {})
  \cup (IF b.platform = "headless" /\ ~b.HAS_EGL THEN {"vtkOSOpenGLRenderWindow"} ELSE {})

Throw == "no_window_exception"

\* The if / else-if chain of the constructor: the set of possible results of
\* backend selection, each a class name, Throw, or Null (RenWin left unset).
SelectRenWin(b, type) ==
  IF type = "NONE" THEN {"vtkF3DNoRenderWindow"}
  ELSE IF type = "EXTERNAL"
    THEN (IF b.EXTERNAL_RENDERING THEN {"vtkExternalOpenGLRenderWindow"} ELSE {Throw})
  ELSE IF type = "EGL"
    THEN (IF b.HAS_EGL /\ b.VTK_NEW THEN {"vtkEGLRenderWindow"} ELSE {Throw})
  ELSE IF type = "OSMESA"
    THEN (IF b.VTK_NEW THEN {"vtkOSOpenGLRenderWindow"} ELSE {Throw})
  ELSE IF type = "GLX"
    THEN (IF VTK_USE_X(b) /\ b.VTK_NEW THEN {"vtkXOpenGLRenderWindow"} ELSE {Throw})
  ELSE IF type = "WGL"
    THEN (IF WIN32(b) THEN {"vtkWin32OpenGLRenderWindow"} ELSE {Null})
  ELSE IF type = Unspecified THEN DefaultClasses(b)
  ELSE {Null}

\* getType(): the chain of IsA tests, in source order
GetType(b, class) ==
  IF IsA(class, "vtkOSOpenGLRenderWindow") THEN "OSMESA"
  ELSE IF VTK_USE_X(b) /\ IsA(class, "vtkXOpenGLRenderWindow") THEN "GLX"
  ELSE IF WIN32(b) /\ IsA(class, "vtkWin32OpenGLRenderWindow") THEN "WGL"
  ELSE IF APPLE(b) /\ IsA(class, "vtkCocoaRenderWindow") THEN "COCOA"
  ELSE IF b.HAS_EGL /\ IsA(class, "vtkEGLRenderWindow") THEN "EGL"
  ELSE IF IsA(class, "vtkF3DNoRenderWindow") THEN "NONE"
  ELSE "UNKNOWN"

-----------------------------------------------------------------------------
(* Options snapshot and renderer                                            *)

\* One entry per unconditional one-argument setter call of
\* UpdateDynamicOptions: renderer setter |-> option field it is fed from.
Wiring ==
  [ShowAxis |-> "interactor.axis",
   SetUseTrackball |-> "interactor.trackball",
   SetInvertZoom |-> "interactor.invert_zoom",
   SetLineWidth |-> "render.line_width",
   SetPointSize |-> "render.point_size",
   ShowEdge |-> "render.show_edges",
   ShowTimer |-> "ui.fps",
   ShowFilename |-> "ui.filename",
   SetFilenameInfo |-> "ui.filename_info",
   ShowMetaData |-> "ui.metadata",
   ShowCheatSheet |-> "ui.cheatsheet",
   ShowDropZone |-> "ui.dropzone",
   SetDropZoneInfo |-> "ui.dropzone_info",
   SetUseRaytracing |-> "render.raytracing.enable",
   SetRaytracingSamples |-> "render.raytracing.samples",
   SetUseRaytracingDenoiser |-> "render.raytracing.denoise",
   SetUseSSAOPass |-> "render.effect.ambient_occlusion",
   SetUseFXAAPass |-> "render.effect.anti_aliasing",
   SetUseToneMappingPass |-> "render.effect.tone_mapping",
   SetUseDepthPeelingPass |-> "render.effect.translucency_support",
   SetBackfaceType |-> "render.backface_type",
   SetFinalShader |-> "render.effect.final_shader",
   SetBackground |-> "render.background.color",
   SetUseBlurBackground |-> "render.background.blur",
   SetBlurCircleOfConfusionRadius |-> "render.background.blur_coc",
   SetLightIntensity |-> "render.light.intensity",
   SetHDRIFile |-> "render.hdri.file",
   SetUseImageBasedLighting |-> "render.hdri.ambient",
   ShowHDRISkybox |-> "render.background.skybox",
   SetFontFile |-> "ui.font_file",
   SetGridUnitSquare |-> "render.grid.unit",
   SetGridSubdivisions |-> "render.grid.subdivisions",
   SetGridAbsolute |-> "render.grid.absolute",
   ShowGrid |-> "render.grid.enable",
   SetGridColor |-> "render.grid.color",
   SetSurfaceColor |-> "model.color.rgb",
   SetOpacity |-> "model.color.opacity",
   SetTextureBaseColor |-> "model.color.texture",
   SetRoughness |-> "model.material.roughness",
   SetMetallic |-> "model.material.metallic",
   SetTextureMaterial |-> "model.material.texture",
   SetTextureEmissive |-> "model.emissive.texture",
   SetEmissiveFactor |-> "model.emissive.factor",
   SetTextureNormal |-> "model.normal.texture",
   SetNormalScale |-> "model.normal.scale",
   SetTextureMatCap |-> "model.matcap.texture",
   SetEnableColoring |-> "model.scivis.enable",
   SetUseCellColoring |-> "model.scivis.cells",
   SetArrayNameForColoring |-> "model.scivis.array_name",
   SetComponentForColoring |-> "model.scivis.component",
   SetScalarBarRange |-> "model.scivis.range",
   SetColormap |-> "model.scivis.colormap",
   ShowScalarBar |-> "ui.scalar_bar",
   SetUsePointSprites |-> "model.point_sprites.enable",
   SetUseVolume |-> "model.volume.enable",
   SetUseInverseOpacityFunction |-> "model.volume.inverse"]

WiredSetters == DOMAIN Wiring

\* setters UpdateDynamicOptions calls with a computed or guarded argument
OtherSetters == {"SetCachePath", "SetPointSpritesProperties", "SetUseOrthographicProjection"}

Setters == WiredSetters \cup OtherSetters

OptionFields ==
  {Wiring[s] : s \in WiredSetters}
  \cup {"model.point_sprites.type", "model.point_sprites.size",
        "scene.camera.index", "scene.camera.orthographic"}

Black == <<0, 0, 0>>

Grey == <<2, 2, 2>>

\* std::optional<int>: empty, or holding one value
NoIndex == <<>>

\* An options snapshot: every scalar field takes the value v, the sprite
\* type, camera index and background colour are given separately.
Snapshot(v, type, index, bg) ==
  [f \in OptionFields |->
     CASE f = "model.point_sprites.type" -> type
       [] f = "scene.camera.index" -> index
       [] f = "scene.camera.orthographic" -> (v = 1)
       [] f = "render.background.color" -> bg
       [] OTHER -> v]

Snapshots ==
  {Snapshot(v, IF v = 1 THEN "gaussian" ELSE "sphere", index, bg) :
     v \in {0, 1}, index \in {NoIndex, <<0>>}, bg \in {Black, Grey}}

\* vtkF3DRenderer after Initialize(): nothing pushed yet
InitialRenderer ==
  [settings |->
     [s \in Setters |->
        CASE s = "SetCachePath" -> ""
          [] s = "SetPointSpritesProperties" -> <<"SPHERE", 0>>
          [] s = "SetUseOrthographicProjection" -> FALSE
          [] s = "SetBackground" -> Black
          [] OTHER -> 0],
   lights |-> FALSE,
   actors |-> FALSE]

UpdateLights(r) == [r EXCEPT !.lights = TRUE]

UpdateActors(r) == [r EXCEPT !.actors = TRUE]

\* vtksys::SystemTools::MakeDirectory: an empty path creates nothing
MakeDirectory(d, path) == IF path = "" THEN d ELSE d \cup {path}

\* internals::GetCachePath: <<returned path, file system afterwards>>
GetCachePath(cp, d) == <<cp, MakeDirectory(d, cp)>>

SplatType(type) == IF type = "gaussian" THEN "GAUSSIAN" ELSE "SPHERE"

\* variant: the sprite size is read back from the renderer's point size, which
\* the same run sets only later
PointSpritesProperties_stale(r, o) ==
  <<SplatType(o["model.point_sprites.type"]), r.settings["SetPointSize"]>>

PointSpritesProperties(r, o) ==
  <<SplatType(o["model.point_sprites.type"]), o["model.point_sprites.size"]>>

\* SetUseOrthographicProjection is called only without a scene camera index
OrthographicProjection(r, o) ==
  IF o["scene.camera.index"] = NoIndex
  THEN o["scene.camera.orthographic"]
  ELSE r.settings["SetUseOrthographicProjection"]

\* variant: the grid colour is not pushed
PushOptions_nogrid(r, o, path) ==
  [r EXCEPT !.settings =
     [s \in Setters |->
        CASE s = "SetCachePath" -> path
          [] s = "SetPointSpritesProperties" -> PointSpritesProperties(r, o)
          [] s = "SetUseOrthographicProjection" -> OrthographicProjection(r, o)
          [] s = "SetGridColor" -> r.settings[s]
          [] OTHER -> o[Wiring[s]]]]

\* variant: the background colour is not pushed
PushOptions_nobackground(r, o, path) ==
  [r EXCEPT !.settings =
     [s \in Setters |->
        CASE s = "SetCachePath" -> path
          [] s = "SetPointSpritesProperties" -> PointSpritesProperties(r, o)
          [] s = "SetUseOrthographicProjection" -> OrthographicProjection(r, o)
          [] s = "SetBackground" -> r.settings[s]
          [] OTHER -> o[Wiring[s]]]]

\* the setter calls of UpdateDynamicOptions on a rendering surface
PushOptions(r, o, path) ==
  [r EXCEPT !.settings =
     [s \in Setters |->
        CASE s = "SetCachePath" -> path
          [] s = "SetPointSpritesProperties" -> PointSpritesProperties(r, o)
          [] s = "SetUseOrthographicProjection" -> OrthographicProjection(r, o)
          [] OTHER -> o[Wiring[s]]]]

\* variant: the cache path is fetched before the surface is tested
UpdateDynamicOptions_cachefirst(class, r, o, cp, d) ==
  LET got == GetCachePath(cp, d)
  IN  IF IsA(class, "vtkF3DNoRenderWindow")
      THEN <<UpdateActors(r), got[2]>>
      ELSE <<UpdateActors(PushOptions(UpdateLights(r), o, got[1])), got[2]>>

\* window_impl::UpdateDynamicOptions as a function of the window's state:
\* <<renderer afterwards, file system afterwards>>
UpdateDynamicOptions(class, r, o, cp, d) ==
  IF IsA(class, "vtkF3DNoRenderWindow")
  THEN <<UpdateActors(r), d>>
  ELSE LET got == GetCachePath(cp, d)
       IN  <<UpdateActors(PushOptions(UpdateLights(r), o, got[1])), got[2]>>

-----------------------------------------------------------------------------
(* The window object                                                        *)

DefaultSize == <<300, 300>>

ScreenSize == <<1920, 1080>>

\* op: the public call; event: what it did last; prev: the event before that;
\* syncs, draws: runs of the option synchroniser and frames drawn so far
\* within the call
\* sized: history, the arguments of the last setSize call, <<>> before it;
\* afterBlack: history, the public call before this one was a completed
\* renderToImage(noBackground = true)
NoCall ==
  [op |-> "none", event |-> "none", prev |-> "none", syncs |-> 0, draws |-> 0,
   noBackground |-> FALSE, sized |-> <<>>, afterBlack |-> FALSE]

\* a public call that neither synchronises options nor draws
Plain(op) ==
  [NoCall EXCEPT !.op = op, !.event = "other", !.prev = call.event,
                 !.sized = call.sized,
                 !.afterBlack = (call.op = "renderToImage" /\ call.noBackground
                                   /\ call.event = "readback")]

\* the render window as the constructor leaves it (lines 259-265)
NewRenWin(class, offscreen) ==
  [class |-> class,
   MultiSamples |-> 0,
   OffScreenRendering |-> offscreen,
   WindowName |-> "f3d",
   Renderers |-> <<"Renderer">>,
   Size |-> DefaultSize,
   Position |-> <<0, 0>>,
   Icon |-> "none"]

\* the empty vtkSmartPointer: no surface
NoRenWin == [NewRenWin(Null, FALSE) EXCEPT !.Renderers = <<>>]

\* Outcomes of reaching line 238 with RenWin unset: the assertion aborts a
\* build with assertions; without them the constructor dereferences the null
\* pointer at line 260 or 262, which is undefined behaviour.
NullSurfaceOutcomes(b) == IF b.NDEBUG THEN {"crashed", "undefined"} ELSE {"aborted"}

window_impl(type, offscreen) ==
  /\ status = "unconstructed"
  /\ \E sel \in SelectRenWin(build, type) :
       /\ requested' = type
       /\ IF sel = Throw
          THEN /\ status' = Throw
               /\ UNCHANGED <<RenWin, Camera, selected, renderer>>
          ELSE IF sel = Null
          THEN /\ status' \in NullSurfaceOutcomes(build)
               /\ UNCHANGED <<RenWin, Camera, selected, renderer>>
          ELSE /\ status' = "constructed"
               /\ RenWin' = NewRenWin(sel, offscreen)
               /\ Camera' = "Renderer"
               /\ selected' = sel
               /\ renderer' = InitialRenderer
  /\ call' = Plain("window_impl")
  /\ UNCHANGED <<build, reported, opts, CachePath, dirs, pc, f3dopt, fileRun, coord>>

Ready == status = "constructed" /\ pc = "idle"

\* variant: width and height reach SetSize in the wrong order
setSize_swapped(width, height) ==
  /\ Ready
  /\ RenWin' = [RenWin EXCEPT !.Size = <<height, width>>]
  /\ call' = [Plain("setSize") EXCEPT !.sized = <<width, height>>]
  /\ UNCHANGED <<build, status, Camera, selected, requested, reported, renderer, opts,
                 CachePath, dirs, pc, f3dopt, fileRun, coord>>

getWidth(rw) == rw.Size[1]

getHeight(rw) == rw.Size[2]

getType ==
  /\ Ready
  /\ reported' = GetType(build, RenWin.class)
  /\ call' = Plain("getType")
  /\ UNCHANGED <<build, winVars, renderer, opts, CachePath, dirs, pc, f3dopt, fileRun, coord>>

setSize(width, height) ==
  /\ Ready
  /\ RenWin' = [RenWin EXCEPT !.Size = <<width, height>>]
  /\ call' = [Plain("setSize") EXCEPT !.sized = <<width, height>>]
  /\ UNCHANGED <<build, status, Camera, selected, requested, reported, renderer, opts,
                 CachePath, dirs, pc, f3dopt, fileRun, coord>>

setPosition(x, y) ==
  /\ Ready
  /\ RenWin' =
       IF IsA(RenWin.class, "vtkCocoaRenderWindow")
       THEN [RenWin EXCEPT !.Position = <<x, ScreenSize[2] - RenWin.Size[2] - y>>]
       ELSE [RenWin EXCEPT !.Position = <<x, y>>]
  /\ call' = Plain("setPosition")
  /\ UNCHANGED <<build, status, Camera, selected, requested, reported, renderer, opts,
                 CachePath, dirs, pc, f3dopt, fileRun, coord>>

setIcon(icon) ==
  /\ Ready
  /\ RenWin' = [RenWin EXCEPT !.Icon = icon]
  /\ call' = Plain("setIcon")
  /\ UNCHANGED <<build, status, Camera, selected, requested, reported, renderer, opts,
                 CachePath, dirs, pc, f3dopt, fileRun, coord>>

setWindowName(windowName) ==
  /\ Ready
  /\ RenWin' = [RenWin EXCEPT !.WindowName = windowName]
  /\ call' = Plain("setWindowName")
  /\ UNCHANGED <<build, status, Camera, selected, requested, reported, renderer, opts,
                 CachePath, dirs, pc, f3dopt, fileRun, coord>>

SetCachePath(cachePath) ==
  /\ Ready
  /\ CachePath' = cachePath
  /\ call' = Plain("SetCachePath")
  /\ UNCHANGED <<build, winVars, reported, renderer, opts, dirs, pc, f3dopt, fileRun, coord>>

\* the host application replaces the options the window refers to
SetOptions(o) ==
  /\ pc = "idle"
  /\ status \in {"unconstructed", "constructed"}
  /\ opts' = o
  /\ opts' # opts
  /\ call' = Plain("options")
  /\ UNCHANGED <<build, winVars, reported, renderer, CachePath, dirs, pc, f3dopt, fileRun, coord>>

\* one run of the option synchroniser inside the call `c`
Synchronise(c) ==
  LET res == UpdateDynamicOptions(RenWin.class, renderer, opts, CachePath, dirs)
  IN  /\ renderer' = res[1]
      /\ dirs' = res[2]
      /\ call' = [c EXCEPT !.event = "sync", !.prev = call.event, !.syncs = @ + 1]

UpdateDynamicOptionsCall ==
  /\ Ready
  /\ Synchronise(Plain("UpdateDynamicOptions"))
  /\ UNCHANGED <<build, winVars, reported, opts, CachePath, pc, f3dopt, fileRun, coord>>

\* variant: render() draws without synchronising the options
render_nosync ==
  /\ Ready
  /\ call' = Plain("render")
  /\ pc' = "render:Render"
  /\ UNCHANGED <<build, winVars, reported, renderer, opts, CachePath, dirs, f3dopt,
                 fileRun, coord>>

\* render(), line 577
render ==
  /\ Ready
  /\ Synchronise(Plain("render"))
  /\ pc' = "render:Render"
  /\ UNCHANGED <<build, winVars, reported, opts, CachePath, f3dopt, fileRun, coord>>

\* render(), lines 578-579
renderRender ==
  /\ pc = "render:Render"
  /\ call' = [call EXCEPT !.event = "draw", !.prev = call.event, !.draws = @ + 1]
  /\ pc' = "idle"
  /\ UNCHANGED <<build, winVars, reported, renderer, opts, CachePath, dirs, f3dopt, fileRun, coord>>

\* renderToImage(), line 585
renderToImage(noBackground) ==
  /\ Ready
  /\ Synchronise([Plain("renderToImage") EXCEPT !.noBackground = noBackground])
  /\ pc' = "renderToImage:background"
  /\ UNCHANGED <<build, winVars, reported, opts, CachePath, f3dopt, fileRun, coord>>

\* variant: the background is left as the options set it
ForceBlack_skipped(rw, r) == r

\* GetRenderers()->GetFirstRenderer()->SetBackground(0, 0, 0)
ForceBlack(rw, r) ==
  IF Head(rw.Renderers) = "Renderer"
  THEN [r EXCEPT !.settings["SetBackground"] = Black]
  ELSE r

\* renderToImage(), lines 587-596
renderToImageBackground ==
  /\ pc = "renderToImage:background"
  /\ IF call.noBackground
     THEN /\ renderer' = ForceBlack(RenWin, renderer)
          /\ call' = [call EXCEPT !.event = "force", !.prev = call.event]
     ELSE UNCHANGED <<renderer, call>>
  /\ pc' = "renderToImage:export"
  /\ UNCHANGED <<build, winVars, reported, opts, CachePath, dirs, f3dopt, fileRun, coord>>

\* variant: the export goes through a fresh offscreen window that replaces RenWin
renderToImageExport_newwindow ==
  /\ pc = "renderToImage:export"
  /\ call' = [call EXCEPT !.event = "readback", !.prev = call.event, !.draws = @ + 1]
  /\ pc' = "idle"
  /\ RenWin' = NewRenWin("vtkOSOpenGLRenderWindow", TRUE)
  /\ UNCHANGED <<build, status, Camera, selected, requested, reported, renderer, opts,
                 CachePath, dirs, f3dopt, fileRun, coord>>

\* renderToImage(), lines 598-608: the export pulls the frame and reads it back
renderToImageExport ==
  /\ pc = "renderToImage:export"
  /\ call' = [call EXCEPT !.event = "readback", !.prev = call.event, !.draws = @ + 1]
  /\ pc' = "idle"
  /\ UNCHANGED <<build, winVars, reported, renderer, opts, CachePath, dirs, f3dopt, fileRun, coord>>

-----------------------------------------------------------------------------
(* Coordinate transform                                                     *)

\* bound of the unprojected coordinates tried, in units of 1e-8
MaxCoord == 1

MaxW == 11

\* homogeneousThreshold = 1e-7, in units of 1e-8
homogeneousThreshold == 10

\* the homogeneous coordinate is a double: a number, or not a number
NaN == [nan |-> TRUE, v |-> 0]

Double(v) == [nan |-> FALSE, v |-> v]

\* operator> of doubles: false whenever an operand is not a number
Greater(a, v) == ~a.nan /\ a.v > v

WorldPoints ==
  {<<x, y, z, w>> : x \in -MaxCoord..MaxCoord, y \in -MaxCoord..MaxCoord, z \in {0, MaxCoord},
                    w \in {Double(v) : v \in -MaxW..MaxW} \cup {NaN}}

Abs(n) == IF n < 0 THEN -n ELSE n

RECURSIVE Gcd(_, _)
Gcd(a, b) == IF b = 0 THEN a ELSE Gcd(b, a % b)

\* the quotient n / d of two doubles as a reduced fraction, d # 0
Quotient(n, d) ==
  LET g == Gcd(Abs(n), Abs(d))
      sgn == IF d < 0 THEN -1 ELSE 1
  IN  <<sgn * (n \div g), sgn * (d \div g)>>

Zero == <<0, 1>>

Origin == <<Zero, Zero, Zero>>

\* variant: the guard admits the threshold itself
HomogeneousDivide_ge(worldPt) ==
  IF Greater(worldPt[4], homogeneousThreshold - 1)
  THEN [divided |-> TRUE,
        out |-> <<Quotient(worldPt[1], worldPt[4].v), Quotient(worldPt[2], worldPt[4].v),
                  Quotient(worldPt[3], worldPt[4].v)>>]
  ELSE [divided |-> FALSE, out |-> Origin]

\* lines 415 and 421-428: the guarded homogeneous division
HomogeneousDivide(worldPt) ==
  IF Greater(worldPt[4], homogeneousThreshold)
  THEN [divided |-> TRUE,
        out |-> <<Quotient(worldPt[1], worldPt[4].v), Quotient(worldPt[2], worldPt[4].v),
                  Quotient(worldPt[3], worldPt[4].v)>>]
  ELSE [divided |-> FALSE, out |-> Origin]

NoCoord == [called |-> FALSE, worldPt |-> <<0, 0, 0, Double(0)>>, divided |-> FALSE, out |-> Origin]

\* worldPt is what the renderer's DisplayToWorld leaves in its world point
getWorldFromDisplay(worldPt) ==
  /\ Ready
  /\ LET res == HomogeneousDivide(worldPt)
     IN  coord' = [called |-> TRUE, worldPt |-> worldPt,
                   divided |-> res.divided, out |-> res.out]
  /\ call' = Plain("getWorldFromDisplay")
  /\ UNCHANGED <<build, winVars, reported, renderer, opts, CachePath, dirs, pc, f3dopt, fileRun>>

-----------------------------------------------------------------------------
(* F3DOptions                                                               *)

BoolFlags == {"Verbose", "Axis", "Grid", "Normals", "Cells", "HideBar",
              "DepthPeeling", "FXAA", "SSAO"}

\* number of boolean flags on a command line tried
MaxFlags == 1

InitialF3DOptions ==
  [flags |-> {}, BackgroundColor |-> <<>>, WindowSize |-> <<>>, Scalars |-> "",
   Component |-> 0, Range |-> <<>>, Input |-> "", proc |-> "start"]

\* a command line: the boolean flags given, --help, --scalars, the input file
ArgLines ==
  [flags : {fs \in SUBSET BoolFlags : Cardinality(fs) <= MaxFlags},
   help : BOOLEAN, scalars : BOOLEAN, input : {"", "a.vtk"}]

argc(a) ==
  1 + Cardinality(a.flags) + (IF a.help THEN 1 ELSE 0) + (IF a.scalars THEN 1 ELSE 0)
    + (IF a.input = "" THEN 0 ELSE 1)

\* what options.parse stores through the bound references and defaults
Parsed(o, a) ==
  [o EXCEPT !.flags = @ \cup a.flags,
            !.BackgroundColor = <<2, 2, 2>>,
            !.WindowSize = <<1000, 600>>,
            !.Scalars = IF a.scalars THEN "f3d_reserved" ELSE @]

\* main calls it once, first
InitializeFromArgs(a) ==
  /\ f3dopt.proc = "start"
  /\ IF argc(a) = 1
     THEN f3dopt' = [f3dopt EXCEPT !.proc = "exit_failure"]
     ELSE IF a.help
     THEN f3dopt' = [Parsed(f3dopt, a) EXCEPT !.proc = "exit_success"]
     ELSE IF a.input = ""
     THEN \* result["input"].as<std::string>() throws: caught or not, the process ends
          \E end \in {"exit_failure", "terminated"} :
            f3dopt' = [Parsed(f3dopt, a) EXCEPT !.proc = end]
     ELSE f3dopt' = [Parsed(f3dopt, a) EXCEPT !.Input = a.input, !.proc = "running"]
  /\ UNCHANGED <<build, winVars, reported, renderer, opts, CachePath, dirs, pc, call,
                 fileRun, coord>>

\* longest configuration file content tried, in tokens
MaxJsonLen == 3

Tokens == {"{", "}", "[", "]", ",", ":", "s", "1"}

RECURSIVE SeqsUpTo(_)
SeqsUpTo(n) ==
  IF n = 0 THEN {<<>>}
  ELSE LET shorter == SeqsUpTo(n - 1)
       IN  shorter \cup {Append(q, t) : q \in {x \in shorter : Len(x) = n - 1}, t \in Tokens}

Contents == SeqsUpTo(MaxJsonLen)

At(toks, i) == IF i <= Len(toks) THEN toks[i] ELSE "eof"

\* Json reader: position after the value that starts at i, or 0 on a syntax error
RECURSIVE ReadValue(_, _), ReadArray(_, _), ReadObject(_, _)
ReadValue(toks, i) ==
  CASE At(toks, i) \in {"s", "1"} -> i + 1
    [] At(toks, i) = "[" ->
         (IF At(toks, i + 1) = "]" THEN i + 2 ELSE ReadArray(toks, i + 1))
    [] At(toks, i) = "{" ->
         (IF At(toks, i + 1) = "}" THEN i + 2 ELSE ReadObject(toks, i + 1))
    [] OTHER -> 0

ReadArray(toks, i) ==
  LET j == ReadValue(toks, i)
  IN  IF j = 0 THEN 0
      ELSE IF At(toks, j) = "]" THEN j + 1
      ELSE IF At(toks, j) = "," THEN ReadArray(toks, j + 1)
      ELSE 0

ReadObject(toks, i) ==
  IF At(toks, i) # "s" \/ At(toks, i + 1) # ":" THEN 0
  ELSE LET j == ReadValue(toks, i + 2)
       IN  IF j = 0 THEN 0
           ELSE IF At(toks, j) = "}" THEN j + 1
           ELSE IF At(toks, j) = "," THEN ReadObject(toks, j + 1)
           ELSE 0

\* Json::parseFromStream with the default builder settings: the document
\* must start with a value; what follows the value is not examined
parseFromStream(toks) == ReadValue(toks, 1) # 0

\* a configuration file name resolves to a file that cannot be opened or to
\* an open stream with some content
FileStates == {[open |-> FALSE, content |-> <<>>]} \cup [open : {TRUE}, content : Contents]

NoFileRun == [called |-> FALSE, file |-> [open |-> FALSE, content |-> <<>>], result |-> FALSE]

\* variant: a parse failure is reported but does not end the function
InitializeFromFileResult_noreturn(o, file) ==
  IF ~file.open THEN <<FALSE, o>> ELSE <<TRUE, o>>

\* <<return value, F3DOptions object afterwards>>
InitializeFromFileResult(o, file) ==
  IF ~file.open THEN <<FALSE, o>>
  ELSE IF ~parseFromStream(file.content) THEN <<FALSE, o>>
  ELSE <<TRUE, o>>

\* the application loads one configuration file
InitializeFromFile(file) ==
  /\ f3dopt.proc \in {"start", "running"}
  /\ ~fileRun.called
  /\ LET res == InitializeFromFileResult(f3dopt, file)
     IN  /\ fileRun' = [called |-> TRUE, file |-> file, result |-> res[1]]
         /\ f3dopt' = res[2]
  /\ UNCHANGED <<build, winVars, reported, renderer, opts, CachePath, dirs, pc, call, coord>>

-----------------------------------------------------------------------------
(* Specifications                                                           *)

InitWith(b) ==
  /\ build = b
  /\ status = "unconstructed"
  /\ RenWin = NoRenWin
  /\ Camera = Null
  /\ selected = Null
  /\ requested = Null
  /\ reported = Null
  /\ renderer = InitialRenderer
  /\ opts \in Snapshots
  /\ CachePath = ""
  /\ dirs = {}
  /\ pc = "idle"
  /\ call = NoCall
  /\ f3dopt = InitialF3DOptions
  /\ fileRun = NoFileRun
  /\ coord = NoCoord

\* a Linux desktop build with every optional backend, and a macOS build
DesktopBuilds ==
  {[platform |-> "x11", EXTERNAL_RENDERING |-> TRUE, HAS_EGL |-> TRUE,
    VTK_NEW |-> TRUE, NDEBUG |-> FALSE],
   [platform |-> "apple", EXTERNAL_RENDERING |-> FALSE, HAS_EGL |-> FALSE,
    VTK_NEW |-> TRUE, NDEBUG |-> TRUE]}

Init == \E b \in DesktopBuilds : InitWith(b)

Construct == \E type \in TypeArgs, offscreen \in BOOLEAN : window_impl(type, offscreen)

ChangeOptions == \E o \in Snapshots : SetOptions(o)

ChangeCachePath == \E cachePath \in {"", "/cache"} : SetCachePath(cachePath)

RenderToImage == \E noBackground \in BOOLEAN : renderToImage(noBackground)

\* the option synchroniser and the two render calls
Next ==
  \/ Construct
  \/ ChangeOptions
  \/ ChangeCachePath
  \/ UpdateDynamicOptionsCall
  \/ render
  \/ renderRender
  \/ RenderToImage
  \/ renderToImageBackground
  \/ renderToImageExport

Spec == Init /\ [][Next]_vars

\* backend selection in every build configuration
InitCtor == \E b \in Builds : InitWith(b) /\ opts = Snapshot(0, "sphere", NoIndex, Black)

NextCtor == Construct \/ getType

SpecCtor == InitCtor /\ [][NextCtor]_vars

\* every public operation of a window
Sizes == {<<800, 600>>, <<1024, 768>>}

InitWindow == Init /\ opts = Snapshot(0, "sphere", NoIndex, Grey)

ChangeOptionsWindow ==
  \E o \in {Snapshot(0, "sphere", NoIndex, Grey), Snapshot(1, "gaussian", <<0>>, Black)} :
    SetOptions(o)

NextWindow ==
  \/ \E type \in TypeArgs : window_impl(type, FALSE)
  \/ getType
  \/ \E sz \in Sizes : setSize(sz[1], sz[2])
  \/ \E y \in {0, 20} : setPosition(10, y)
  \/ setWindowName("scene")
  \/ setIcon("png")
  \/ SetCachePath("/cache")
  \/ ChangeOptionsWindow
  \/ UpdateDynamicOptionsCall
  \/ render
  \/ renderRender
  \/ RenderToImage
  \/ renderToImageBackground
  \/ renderToImageExport

SpecWindow == InitWindow /\ [][NextWindow]_vars

\* the command line application's options object
InitOptions == InitWith(CHOOSE b \in DesktopBuilds : b.platform = "x11")
                 /\ opts = Snapshot(0, "sphere", NoIndex, Black)

NextOptions ==
  \/ \E a \in ArgLines : InitializeFromArgs(a)
  \/ \E file \in FileStates : InitializeFromFile(file)

SpecOptions == InitOptions /\ [][NextOptions]_vars

\* unprojection on a constructed window
NextCoord ==
  \/ \E type \in TypeArgs : window_impl(type, FALSE)
  \/ \E worldPt \in WorldPoints : getWorldFromDisplay(worldPt)

SpecCoord == InitOptions /\ [][NextCoord]_vars

-----------------------------------------------------------------------------
(* Properties                                                               *)

\* the backends a build supports, by the feature macros of its configuration
CompiledIn(b, type) ==
  CASE type = "NONE" -> TRUE
    [] type = "EXTERNAL" -> b.EXTERNAL_RENDERING
    [] type = "EGL" -> b.HAS_EGL /\ b.VTK_NEW
    [] type = "OSMESA" -> b.VTK_NEW
    [] type = "GLX" -> VTK_USE_X(b) /\ b.VTK_NEW
    [] type = "WGL" -> WIN32(b)
    [] OTHER -> FALSE

BackendTypes == {"NONE", "EXTERNAL", "EGL", "OSMESA", "GLX", "WGL"}

\* C1: constructing a window with a compiled-in backend type T succeeds, and
\* getType() on that window returns T.
C1_TypeRoundTrip ==
  (requested \in BackendTypes /\ CompiledIn(build, requested))
    => /\ status = "constructed"
       /\ call.op = "getType" => reported = requested

\* C2: a requested backend type without compile-time support ends the
\* construction with the no-window exception, never with an unset surface.
C2_UnsupportedThrows ==
  (requested \in Types /\ ~CompiledIn(build, requested)) => status = Throw

OnSurface == status = "constructed" /\ ~IsA(RenWin.class, "vtkF3DNoRenderWindow")

OnNoneSurface == status = "constructed" /\ IsA(RenWin.class, "vtkF3DNoRenderWindow")

\* C3: a run of UpdateDynamicOptions that directly follows another run, with
\* the options unchanged in between, leaves the renderer as the first run
\* left it.
C3_Idempotent ==
  [][(call.event = "sync" /\ call'.event = "sync" /\ opts' = opts)
       => renderer' = renderer]_vars

C3_Witness ==
  /\ OnSurface
  /\ call.event = "sync"
  /\ call.prev = "sync"
  /\ opts["render.line_width"] = 1
  /\ opts["scene.camera.index"] # NoIndex

\* the renderer setting `s` holds what the options say
Corresponds(s) ==
  CASE s = "SetCachePath" -> renderer.settings[s] = CachePath
    [] s = "SetPointSpritesProperties" ->
         /\ renderer.settings[s][1] \in {"GAUSSIAN", "SPHERE"}
         /\ renderer.settings[s][1] = "GAUSSIAN" <=> opts["model.point_sprites.type"] = "gaussian"
         /\ renderer.settings[s][2] = opts["model.point_sprites.size"]
    [] s = "SetUseOrthographicProjection" ->
         renderer.settings[s] = opts["scene.camera.orthographic"]
    [] OTHER -> renderer.settings[s] = opts[Wiring[s]]

\* C4 as stated: after a run of UpdateDynamicOptions on a surface other than
\* the 'none' surface every renderer setting equals its option field, the
\* orthographic projection included, whether or not a camera index is set.
C4_FullResync ==
  (OnSurface /\ call.event = "sync") => \A s \in Setters : Corresponds(s)

\* C4 amended: after a run of UpdateDynamicOptions on a surface other than the
\* 'none' surface every renderer setting equals its option field, except
\* that the orthographic projection is only pushed when no scene camera
\* index is set.
C4_ResyncButOrthographic ==
  (OnSurface /\ call.event = "sync")
    => /\ \A s \in Setters \ {"SetUseOrthographicProjection"} : Corresponds(s)
       /\ opts["scene.camera.index"] = NoIndex => Corresponds("SetUseOrthographicProjection")

C4_Witness ==
  /\ OnSurface
  /\ call.event = "sync"
  /\ opts["scene.camera.index"] # NoIndex
  /\ opts["render.grid.color"] = 1
  /\ renderer.settings["SetGridColor"] = 1
  /\ renderer.settings["SetBackground"] = Grey

\* C5: on the 'none' surface a run of UpdateDynamicOptions changes no renderer
\* setting, creates no directory and does nothing but update the actors.
C5_NoneSurfaceOnlyActors ==
  [][(OnNoneSurface /\ call'.event = "sync")
       => /\ renderer'.settings = renderer.settings
          /\ renderer'.lights = renderer.lights
          /\ renderer'.actors
          /\ dirs' = dirs]_vars

C5_Witness ==
  /\ OnNoneSurface
  /\ call.event = "sync"
  /\ CachePath # ""
  /\ opts["render.line_width"] = 1
  /\ renderer.settings = InitialRenderer.settings
  /\ renderer.actors
  /\ dirs = {}

\* C6: a frame drawn by render() and a read-back done by renderToImage() come
\* after exactly one run of the option synchroniser in the same call, and are
\* the first frame of that call.
C6_SyncOnceBeforeDraw ==
  call.event \in {"draw", "readback"} => call.syncs = 1 /\ call.draws = 1

C6_Witness == call.event = "draw" /\ call.op = "render" /\ call.prev = "sync"

\* C7: when renderToImage(noBackground = true) reads the pixels back, the
\* renderer's background is black, whatever the options' background colour.
C7_BlackAtReadback ==
  (call.event = "readback" /\ call.noBackground)
    => renderer.settings["SetBackground"] = Black

C7_Witness ==
  /\ OnSurface
  /\ call.event = "readback"
  /\ call.noBackground
  /\ call.prev = "force"
  /\ opts["render.background.color"] = Grey

\* C8: a constructed window holds the one render surface its constructor
\* selected, never an unset one, and a camera, through every public operation.
C8_OneSurfaceAndCamera ==
  status = "constructed"
    => /\ RenWin # NoRenWin
       /\ RenWin.class \in Classes
       /\ RenWin.class = selected
       /\ selected \in SelectRenWin(build, requested) \cap Classes
       /\ Len(RenWin.Renderers) = 1
       /\ Camera # Null

C8_Witness ==
  /\ status = "constructed"
  /\ call.op = "renderToImage"
  /\ call.event = "readback"
  /\ RenWin.Icon = "png"
  /\ RenWin.Size = <<800, 600>>
  /\ RenWin.WindowName = "scene"
  /\ CachePath = "/cache"
  /\ reported # Null

\* C9: InitializeFromFile returns false for a file that cannot be opened and
\* for content that does not parse, true otherwise, and never changes a field
\* of the F3DOptions object.
C9_FileLoad ==
  /\ [](fileRun.called =>
          fileRun.result = (fileRun.file.open /\ parseFromStream(fileRun.file.content)))
  /\ [][fileRun' # fileRun => f3dopt' = f3dopt]_vars

C9_Witness ==
  /\ fileRun.called
  /\ fileRun.result
  /\ Len(fileRun.file.content) > 1
  /\ f3dopt.flags # {}
  /\ f3dopt.proc = "running"

\* the result is the exact quotient of the first three components by w
IsDivided(c) ==
  \A i \in 1..3 :
    c.out[i][2] > 0 /\ c.out[i][1] * c.worldPt[4].v = c.worldPt[i] * c.out[i][2]

\* w is a number below v
Below(w, v) == ~w.nan /\ w.v < v

\* C10 as stated: the division is skipped, and the origin returned, exactly
\* when w is below the threshold; for every w not below it, the threshold
\* itself included, the result is (x/w, y/w, z/w).
C10_DivideUnlessBelow ==
  (coord.called /\ ~coord.worldPt[4].nan)
    => /\ ~coord.divided <=> Below(coord.worldPt[4], homogeneousThreshold)
       /\ Below(coord.worldPt[4], homogeneousThreshold) => coord.out = Origin
       /\ (~coord.worldPt[4].nan /\ ~Below(coord.worldPt[4], homogeneousThreshold))
            => IsDivided(coord)

\* C10 amended: the result is (x/w, y/w, z/w) exactly when w is a number
\* strictly above the threshold; in every other case (w at or below the
\* threshold, or not a number) the division is skipped and the origin returned.
C10_DivideAbove ==
  coord.called
    => /\ coord.divided <=> (~coord.worldPt[4].nan /\ coord.worldPt[4].v > homogeneousThreshold)
       /\ coord.divided => IsDivided(coord)
       /\ ~coord.divided => coord.out = Origin

C10_Witness ==
  /\ coord.called
  /\ coord.worldPt[4] = Double(homogeneousThreshold)
  /\ coord.worldPt[1] # 0
  /\ coord.out = Origin

\* C11: after setSize(w, h), getWidth() returns w and getHeight() returns h,
\* through every later operation until setSize is called again.
C11_SizeKept ==
  (status = "constructed" /\ call.sized # <<>>)
    => getWidth(RenWin) = call.sized[1] /\ getHeight(RenWin) = call.sized[2]

C11_Witness ==
  /\ status = "constructed"
  /\ call.sized = <<800, 600>>
  /\ call.op = "renderToImage"
  /\ call.event = "readback"
  /\ RenWin.Position # <<0, 0>>
  /\ RenWin.WindowName = "scene"
  /\ CachePath = "/cache"

\* C12: on a surface other than the 'none' surface, every frame drawn by
\* render() and every read-back of renderToImage(noBackground = false) is
\* done with the renderer's background equal to the options' background
\* colour, also right after a renderToImage(noBackground = true).
C12_BlackDoesNotLeak ==
  (OnSurface /\ (call.event = "draw" \/ (call.event = "readback" /\ ~call.noBackground)))
    => renderer.settings["SetBackground"] = opts["render.background.color"]

C12_Witness ==
  /\ OnSurface
  /\ call.op = "render"
  /\ call.event = "draw"
  /\ call.afterBlack
  /\ opts["render.background.color"] = Grey

====
